---- MODULE Spec2Model ----
(***************************************************************************)
(* A model of zenoh-pico's unix transport shim, src/system/unix/network.c: *)
(* endpoint resolution, TCP open/close/read/send, UDP open/close/read/send *)
(* and the exact-length read loop shared by both transports.               *)
(*                                                                         *)
(* The layer is synchronous and single threaded: one caller drives it, so  *)
(* the model has one program counter, pc.  A run exercises one transport   *)
(* (mode): "tcp", "udp", or "rx", the exact-read loop on an open channel.  *)
(* The operating system (resolver, descriptor table, socket options, the   *)
(* peer) is the environment: its answers are drawn nondeterministically    *)
(* from what the system calls of the source can return.                    *)
(***************************************************************************)
EXTENDS Integers, Sequences, FiniteSets, TLC

\* ---------------------------------------------------------------- bounds
\* longest address list the resolver returns
MaxAddrs == 2
\* size of the process's descriptor table (socket() fails once it is full)
MaxFds == 1
\* longest payload / requested length of an exact read
MaxLen == 4

\* ------------------------------------------------------- value universes
Families == {"AF_INET", "AF_INET6"}
\* getaddrinfo(): 0 is success; EAI_* codes are negative with glibc and musl
\* (EAI_NONAME = -2) and positive on the BSDs and macOS (EAI_NONAME = 8)
GaiStatus == {0, -2, 8}
\* errno of a failed socket() or setsockopt(): EMFILE, ENOBUFS
Errnos == {24, 105}
\* errno of a setsockopt(SO_RCVTIMEO/SO_SNDTIMEO) whose timeval is out of range
EDOM == 33
\* errno of a failed connect()
ECONNREFUSED == 111
\* ZN_TRANSPORT_LEASE, milliseconds (a build-time configuration)
Leases == {0, 999, 1000, 2999}
\* the timeouts a caller passes to _zn_udp_open (clock_t is signed)
Touts == {0, 999999, 1000000}
\* tv_usec must be below one second for the kernel to accept the timeval
UsecPerSec == 1000000
\* payload bytes
Bytes == {10, 11}
\* a buffer cell nothing has been written to
Uninit == -1
\* pointer values: NULL, and a pointer into memory that is not an addrinfo
Null == 0
Wild == -1
\* the address the kernel finds behind a clobbered ai_addr
NoAddr == 0
\* length of the buffers passed to the single-call read and send
IoLen == 2
\* senders of datagrams
Sources == {1, 2}

VARIABLES
    mode,      \* "tcp" | "udp" | "rx": the transport this run drives
    lease,     \* ZN_TRANSPORT_LEASE of the build
    pc,        \* where the caller is
    nodes,     \* the addrinfo list getaddrinfo() allocated for the endpoint
    ep,        \* the endpoint pointer the create function returned
    gai,       \* [status, touched]: the resolver's answer, and whether the
               \* create function read or released the list afterwards
    sk,        \* the descriptor table: fd -> socket state
    owned,     \* descriptors an open returned Ok(handle) for
    closedOk,  \* descriptors a close returned 0 for
    r,         \* the _zn_socket_result_t of the last open
    cur,       \* locals of the open in progress (or of the last one)
    attempts,  \* connect() calls of the open in progress, in order
    errno,     \* the C library's errno
    lastIo,    \* the last close/read/send: [op, fd, ret]
    laddr,     \* the local address list of _zn_udp_open: none | live | freed
    rx         \* the exact read in progress

vars == <<mode, lease, pc, nodes, ep, gai, sk, owned, closedOk, r, cur,
          attempts, errno, lastIo, laddr, rx>>

netvars == <<nodes, ep, gai, sk, owned, closedOk, r, cur, attempts, errno,
             lastIo, laddr>>

\* ------------------------------------------------------------- helpers
Min(a, b) == IF a < b THEN a ELSE b

\* SO_LINGER as a socket has it before the option is set
NoLinger == [l_onoff |-> 0, l_linger |-> 0]

\* a slot of the descriptor table.  peer is the address connect() named;
\* linger is the struct linger of SO_LINGER; rcvtimeo and sndtimeo are in
\* microseconds (-1: never set); tout records the timeout argument of the _zn_udp_open that made the socket.
FreeSock == [st |-> "free", family |-> "none", keepalive |-> FALSE,
             linger |-> NoLinger, peer |-> NoAddr, shutrd |-> FALSE,
             shutwr |-> FALSE, rcvtimeo |-> -1, sndtimeo |-> -1, tout |-> -1]

\* socket(family, type, protocol): a fresh, unconnected, unbound socket
NewSock(family) == [FreeSock EXCEPT !.st = "open", !.family = family]

Fds == 1..MaxFds
FreeFds == {fd \in Fds : sk[fd].st = "free"}
LowestFree == CHOOSE fd \in FreeFds : \A g \in FreeFds : fd <= g

\* the lists getaddrinfo() can answer with: 1..MaxAddrs nodes, each with a
\* family and an address that the peer accepts connections on or not
Node == [family : Families, reach : BOOLEAN, alive : {TRUE}]
Chains == UNION {[1..k -> Node] : k \in 1..MaxAddrs}
\* a datagram endpoint is never connected to: reachability plays no part
UdpChains == {c \in Chains : \A i \in 1..Len(c) : c[i].reach}

\* the socket address of node i (ai_addr): addresses are numbered as the
\* resolver lists them
AddrOf(i) == i

\* ai_next of node i of the list
NextOf(i) == IF i < Len(nodes) THEN i + 1 ELSE Null

OkResult(fd) == [tag |-> "OK", socket |-> fd, error |-> 0, zn |-> ""]
\* Err carrying a plain integer (an errno, or whatever the code stored)
ErrInt(e) == [tag |-> "ERR", socket |-> 0, error |-> e, zn |-> ""]
\* Err carrying one of the layer's _zn_err_t codes
ErrZn(code) == [tag |-> "ERR", socket |-> 0, error |-> 0, zn |-> code]

\* locals and history of an open: the descriptor socket() returned (0: none),
\* the loop variable it, the timeout argument, the call that failed ("": none)
\* and the errno that call set
NoCur == [fd |-> 0, it |-> Null, tout |-> 0, failed |-> "", oserr |-> 0]

\* errno of the failing calls outside open: ENOTCONN, EPIPE, ECONNRESET,
\* EAGAIN, EBADF
IoErrno == [shutdown |-> 107, send |-> 32, recv |-> 104, timeout |-> 11,
            badf |-> 9]
NoIo == [op |-> "none", fd |-> 0, ret |-> 0, dest |-> NoAddr]
\* an exact read: the function, its arguments and locals (len, n, and off, the
\* distance of ptr from the start of the caller's buffer), the buffer, what
\* the peer sends before it closes (payload) and what of it is still to be
\* received (left), the return value, and what has happened so far: an
\* underlying read returned 0 (sawZero) or failed (sawErr), a read stored
\* bytes outside the buffer (oob), every read so far was issued at the end of
\* the bytes accumulated (aligned), the number of underlying reads made,
\* modulo 2 (reads)
NoRx == [fn |-> "none", len |-> 0, n |-> 0, off |-> 0,
         buf |-> <<>>, payload |-> <<>>, left |-> <<>>, ret |-> 0,
         sawZero |-> FALSE, sawErr |-> FALSE, oob |-> FALSE,
         aligned |-> TRUE, reads |-> 0]

\* ---------------------------------------------------------------- Init
Init ==
    /\ mode \in {"tcp", "udp", "rx"}
    /\ lease \in (IF mode = "tcp" THEN Leases ELSE {0})
    /\ pc = "idle"
    /\ nodes = <<>>
    /\ ep = "unset"
    /\ gai = [status |-> 0, touched |-> FALSE]
    /\ sk = [fd \in Fds |-> FreeSock]
    /\ owned = {}
    /\ closedOk = {}
    /\ r = [tag |-> "none", socket |-> 0, error |-> 0, zn |-> ""]
    /\ cur = NoCur
    /\ attempts = <<>>
    /\ errno = 0
    /\ lastIo = NoIo
    /\ laddr = "none"
    /\ rx = NoRx

\* ------------------------------------------------------ TCP: endpoints
\* line 37: the resolver's failure test of the TCP create function
tcp_resolve_failed(status) == status # 0

\* line 40, freeaddrinfo(addr->ai_next): every node after the head is
\* released; the head keeps its ai_next, which now dangles
free_tail(chain) == [i \in 1..Len(chain) |-> [chain[i] EXCEPT !.alive = (i = 1)]]

\* _zn_create_tcp_endpoint.  freeaddrinfo(NULL), which a one-node list
\* leads to, is not defined by POSIX: glibc returns, musl dereferences it.
zn_create_tcp_endpoint ==
    /\ mode = "tcp" /\ pc = "idle" /\ ep = "unset"
    /\ \E status \in GaiStatus :
         IF tcp_resolve_failed(status)
         THEN /\ gai' = [status |-> status, touched |-> FALSE]
              /\ ep' = "null"
              /\ UNCHANGED <<nodes, pc>>
         ELSE \E chain \in Chains :
              /\ gai' = [status |-> status, touched |-> TRUE]
              /\ nodes' = free_tail(chain)
              /\ \/ ep' = "head" /\ pc' = "idle"
                 \/ Len(chain) = 1 /\ ep' = "unset" /\ pc' = "crashed"
    /\ UNCHANGED <<mode, lease, sk, owned, closedOk, r, cur, attempts, errno,
                   lastIo, laddr, rx>>

\* ----------------------------------------------------------- TCP: open
\* line 54, r.value.error = r.value.socket: what a failed socket() leaves in
\* the result (rv is socket()'s return value, e the errno it set)
socket_error(rv, e) == rv

\* variant of option_error: the failed call's return value is stored, as
\* line 54 does
option_error_rv(e) == -1

\* lines 62 and 73, r.value.error = errno
option_error(e) == e

\* variant of linger_seconds: the lease is rounded to the nearest second
linger_seconds_rounded(ms) == (ms + 500) \div 1000

\* line 69, ling.l_linger = ZN_TRANSPORT_LEASE / 1000 (C integer division;
\* the lease is not negative)
linger_seconds(ms) == ms \div 1000

\* lines 44-56: socket() for the family of the first candidate
zn_tcp_open_socket ==
    /\ mode = "tcp" /\ pc = "idle" /\ ep = "head"
    /\ attempts' = <<>>
    /\ \/ \E e \in Errnos :
            /\ errno' = e
            /\ r' = ErrInt(socket_error(-1, e))
            /\ cur' = [NoCur EXCEPT !.failed = "socket", !.oserr = e]
            /\ UNCHANGED <<sk, pc>>
       \/ /\ FreeFds # {}
          /\ sk' = [sk EXCEPT ![LowestFree] = NewSock(nodes[1].family)]
          /\ cur' = [NoCur EXCEPT !.fd = LowestFree, !.it = 1]
          /\ r' = OkResult(LowestFree)
          /\ pc' = "tcp_keepalive"
          /\ UNCHANGED errno
    /\ UNCHANGED <<mode, lease, nodes, ep, gai, owned, closedOk, lastIo, laddr, rx>>

\* lines 58-65: SO_KEEPALIVE; on failure the socket is closed
zn_tcp_open_keepalive ==
    /\ pc = "tcp_keepalive"
    /\ \/ \E e \in Errnos :
            /\ errno' = e
            /\ r' = ErrInt(option_error(e))
            /\ sk' = [sk EXCEPT ![cur.fd] = FreeSock]
            /\ cur' = [cur EXCEPT !.failed = "keepalive", !.oserr = e]
            /\ pc' = "idle"
       \/ /\ sk' = [sk EXCEPT ![cur.fd].keepalive = TRUE]
          /\ pc' = "tcp_linger"
          /\ UNCHANGED <<errno, r, cur>>
    /\ UNCHANGED <<mode, lease, nodes, ep, gai, owned, closedOk, attempts, lastIo,
                   laddr, rx>>

\* lines 67-69: the struct linger handed to SO_LINGER
linger_option(ms) == [l_onoff |-> 1, l_linger |-> linger_seconds(ms)]

\* lines 67-76: SO_LINGER; on failure the socket is closed
zn_tcp_open_linger ==
    /\ pc = "tcp_linger"
    /\ \/ \E e \in Errnos :
            /\ errno' = e
            /\ r' = ErrInt(option_error(e))
            /\ sk' = [sk EXCEPT ![cur.fd] = FreeSock]
            /\ cur' = [cur EXCEPT !.failed = "linger", !.oserr = e]
            /\ pc' = "idle"
       \/ /\ sk' = [sk EXCEPT ![cur.fd].linger = linger_option(lease)]
          /\ pc' = "tcp_connect"
          /\ UNCHANGED <<errno, r, cur>>
    /\ UNCHANGED <<mode, lease, nodes, ep, gai, owned, closedOk, attempts, lastIo,
                   laddr, rx>>

\* What a read of node i's ai_addr and ai_next yields.  A node that line 40
\* released is read after free: its memory may still hold what it held, or
\* the allocator may have reused it, leaving an ai_addr the kernel finds no
\* address behind and an ai_next that is NULL, stale or wild.
node_views(i) ==
    IF nodes[i].alive
    THEN {[addr |-> AddrOf(i), next |-> NextOf(i)]}
    ELSE {[addr |-> a, next |-> n] :
             a \in {AddrOf(i), NoAddr}, n \in {NextOf(i), Null, Wild}}

\* connect(sock, addr): the peer accepts on addr, and addr is of the
\* socket's own family
connect_ok(fd, a) ==
    /\ a # NoAddr
    /\ nodes[a].reach
    /\ nodes[a].family = sk[fd].family

\* variant of connect_exhausted: the result is returned as it stands, its
\* tag still the _z_res_t_OK of line 48
connect_exhausted_untagged == r

\* lines 86-91: the last candidate failed (the socket is left as it is)
connect_exhausted == ErrZn("TX_CONNECTION")

\* lines 81-99: one iteration of the fallback loop
zn_tcp_open_connect ==
    /\ pc = "tcp_connect"
    /\ IF cur.it = Wild
       THEN /\ pc' = "crashed"
            /\ UNCHANGED <<sk, owned, r, cur, attempts, errno>>
       ELSE \E v \in node_views(cur.it) :
            /\ attempts' = Append(attempts,
                   [node |-> cur.it, addr |-> v.addr,
                    ok |-> connect_ok(cur.fd, v.addr)])
            /\ IF connect_ok(cur.fd, v.addr)
               THEN /\ sk' = [sk EXCEPT ![cur.fd].peer = v.addr]
                    /\ owned' = owned \cup {cur.fd}
                    /\ pc' = "idle"
                    /\ UNCHANGED <<r, cur, errno>>
               ELSE /\ errno' = ECONNREFUSED
                    /\ IF v.next = Null
                       THEN /\ r' = connect_exhausted
                            /\ cur' = [cur EXCEPT !.failed = "connect",
                                                  !.oserr = ECONNREFUSED]
                            /\ pc' = "idle"
                       ELSE /\ cur' = [cur EXCEPT !.it = v.next]
                            /\ UNCHANGED <<r, pc>>
                    /\ UNCHANGED <<sk, owned>>
    /\ UNCHANGED <<mode, lease, nodes, ep, gai, closedOk, lastIo, laddr, rx>>

\* ------------------------------------------------ TCP: close, read, send
\* variant of tcp_close_effect: the descriptor is released, as close(sock)
\* of _zn_udp_close does
tcp_close_releases(s) == FreeSock

\* line 104: what shutdown(sock, SHUT_RDWR) does to a connected socket
tcp_close_effect(s) == [s EXCEPT !.shutrd = TRUE, !.shutwr = TRUE]

\* lines 102-105.  shutdown() of a socket that is not connected fails with
\* ENOTCONN; a repeated shutdown returns 0 until the connection has reached
\* CLOSE and ENOTCONN after.
zn_tcp_close ==
    /\ mode = "tcp" /\ pc = "idle"
    /\ \E fd \in owned :
         \/ /\ sk[fd].st = "open" /\ sk[fd].peer # NoAddr
            /\ sk' = [sk EXCEPT ![fd] = tcp_close_effect(sk[fd])]
            /\ closedOk' = closedOk \cup {fd}
            /\ lastIo' = [NoIo EXCEPT !.op = "close", !.fd = fd]
            /\ UNCHANGED errno
         \/ /\ sk[fd].st = "free" \/ sk[fd].peer = NoAddr
               \/ (sk[fd].shutrd /\ sk[fd].shutwr)
            /\ lastIo' = [NoIo EXCEPT !.op = "close", !.fd = fd, !.ret = -1]
            /\ errno' = IoErrno.shutdown
            /\ UNCHANGED <<sk, closedOk>>
    /\ UNCHANGED <<mode, lease, pc, nodes, ep, gai, owned, r, cur, attempts,
                   laddr, rx>>

\* what recv(sock, ptr, len, 0) can return on a stream socket: nothing is
\* received once reading is shut down (0, as at the peer's orderly close)
tcp_recv_results(s, len) ==
    IF s.st = "free" THEN {-1}
    ELSE IF s.shutrd THEN {0}
    ELSE -1..len

\* what send(sock, ptr, len, flags) can return: EPIPE once writing is shut down
tcp_send_results(s, len) ==
    IF s.st = "free" \/ s.shutwr THEN {-1}
    ELSE {-1} \cup 1..len

\* lines 107-110
zn_tcp_read ==
    /\ mode = "tcp" /\ pc = "idle"
    /\ \E fd \in owned : \E ret \in tcp_recv_results(sk[fd], IoLen) :
         /\ lastIo' = [NoIo EXCEPT !.op = "read", !.fd = fd, !.ret = ret]
         /\ errno' = IF ret < 0 THEN IoErrno.recv ELSE errno
    /\ UNCHANGED <<mode, lease, pc, nodes, ep, gai, sk, owned, closedOk, r, cur,
                   attempts, laddr, rx>>

\* lines 130-137
zn_tcp_send ==
    /\ mode = "tcp" /\ pc = "idle"
    /\ \E fd \in owned : \E ret \in tcp_send_results(sk[fd], IoLen) :
         /\ lastIo' = [NoIo EXCEPT !.op = "send", !.fd = fd, !.ret = ret]
         /\ errno' = IF ret < 0 THEN IoErrno.send ELSE errno
    /\ UNCHANGED <<mode, lease, pc, nodes, ep, gai, sk, owned, closedOk, r, cur,
                   attempts, laddr, rx>>

\* ------------------------------------------------------ UDP: endpoints
\* line 151: the resolver's failure test of the UDP create function
udp_resolve_failed(status) == status < 0

\* _zn_create_udp_endpoint, lines 140-156.  When getaddrinfo() fails with a
\* status the test of line 151 lets through, addr was never assigned: line
\* 154 reads ai_next through an uninitialized pointer and hands what it finds
\* to freeaddrinfo().  The build either faults there or goes on and returns
\* the uninitialized pointer.
zn_create_udp_endpoint ==
    /\ mode = "udp" /\ pc = "idle" /\ ep = "unset"
    /\ \E status \in GaiStatus :
         IF udp_resolve_failed(status)
         THEN /\ gai' = [status |-> status, touched |-> FALSE]
              /\ ep' = "null"
              /\ UNCHANGED <<nodes, pc>>
         ELSE IF status = 0
         THEN \E chain \in UdpChains :
              /\ gai' = [status |-> status, touched |-> TRUE]
              /\ nodes' = free_tail(chain)
              /\ \/ ep' = "head" /\ pc' = "idle"
                 \/ Len(chain) = 1 /\ ep' = "unset" /\ pc' = "crashed"
         ELSE /\ gai' = [status |-> status, touched |-> TRUE]
              /\ UNCHANGED nodes
              /\ \/ ep' = "wild" /\ pc' = "idle"
                 \/ ep' = "unset" /\ pc' = "crashed"
    /\ UNCHANGED <<mode, lease, sk, owned, closedOk, r, cur, attempts, errno,
                   lastIo, laddr, rx>>

\* ----------------------------------------------------------- UDP: open
\* lines 164-177: the local wildcard resolution.  The hints are read from
\* the caller's endpoint; through a pointer that is no endpoint the read
\* faults or yields hints of any kind.
zn_udp_open_resolve ==
    /\ mode = "udp" /\ pc = "idle" /\ ep \in {"head", "wild"}
    /\ attempts' = <<>>
    /\ \/ /\ ep = "wild"
          /\ pc' = "crashed"
          /\ UNCHANGED <<r, cur, laddr>>
       \/ \E tout \in Touts : \E status \in GaiStatus :
            IF status # 0
            THEN /\ r' = ErrZn("INVALID_LOCATOR")
                 /\ cur' = [NoCur EXCEPT !.tout = tout, !.failed = "getaddrinfo"]
                 /\ laddr' = "none"
                 /\ UNCHANGED pc
            ELSE /\ r' = OkResult(0)
                 /\ cur' = [NoCur EXCEPT !.tout = tout]
                 /\ laddr' = "live"
                 /\ pc' = "udp_socket"
    /\ UNCHANGED <<mode, lease, nodes, ep, gai, sk, owned, closedOk, errno,
                   lastIo, rx>>

\* the family of the local list: that of the hints
local_families == IF ep = "head" THEN {nodes[1].family} ELSE Families

\* lines 179-185: socket() for the first local address
zn_udp_open_socket ==
    /\ pc = "udp_socket"
    /\ \/ \E e \in Errnos :
            /\ errno' = e
            /\ r' = ErrInt(socket_error(-1, e))
            /\ cur' = [cur EXCEPT !.failed = "socket", !.oserr = e]
            /\ pc' = "idle"
            /\ UNCHANGED sk
       \/ /\ FreeFds # {}
          /\ \E f \in local_families :
               sk' = [sk EXCEPT ![LowestFree] =
                                   [NewSock(f) EXCEPT !.tout = cur.tout]]
          /\ cur' = [cur EXCEPT !.fd = LowestFree]
          /\ r' = OkResult(LowestFree)
          /\ pc' = "udp_rcvtimeo"
          /\ UNCHANGED errno
    /\ UNCHANGED <<mode, lease, nodes, ep, gai, owned, closedOk, attempts, lastIo,
                   laddr, rx>>

\* variant of udp_timeval: tv_usec is left at 0 and tout dropped
udp_timeval_unset(tout) == [tv_sec |-> 0, tv_usec |-> 0]

\* lines 187-189: the timeval both options are set from
udp_timeval(tout) == [tv_sec |-> 0, tv_usec |-> tout]

\* the kernel takes a timeval whose tv_usec lies in 0 .. 999999 (EDOM if not)
timeval_ok(tv) == tv.tv_usec >= 0 /\ tv.tv_usec < UsecPerSec

\* the timeout the socket keeps, in microseconds; 0 disables it
timeval_usec(tv) == tv.tv_sec * UsecPerSec + tv.tv_usec

\* the errno a failing setsockopt(SO_RCVTIMEO / SO_SNDTIMEO) can set
timeo_errnos(tv) == IF timeval_ok(tv) THEN Errnos ELSE {EDOM}

\* lines 190-196: SO_RCVTIMEO; on failure the socket is closed
zn_udp_open_rcvtimeo ==
    /\ pc = "udp_rcvtimeo"
    /\ \/ \E e \in timeo_errnos(udp_timeval(cur.tout)) :
            /\ errno' = e
            /\ r' = ErrInt(option_error(e))
            /\ sk' = [sk EXCEPT ![cur.fd] = FreeSock]
            /\ cur' = [cur EXCEPT !.failed = "rcvtimeo", !.oserr = e]
            /\ pc' = "idle"
       \/ /\ timeval_ok(udp_timeval(cur.tout))
          /\ sk' = [sk EXCEPT ![cur.fd].rcvtimeo =
                                   timeval_usec(udp_timeval(cur.tout))]
          /\ pc' = "udp_sndtimeo"
          /\ UNCHANGED <<errno, r, cur>>
    /\ UNCHANGED <<mode, lease, nodes, ep, gai, owned, closedOk, attempts, lastIo,
                   laddr, rx>>

\* variant of udp_opened: the socket is connected to the first remote
\* address, as the TCP open does
udp_opened_connected(s, tv) ==
    [s EXCEPT !.sndtimeo = timeval_usec(tv), !.peer = AddrOf(1)]

\* lines 198-207: the socket _zn_udp_open returns, its send timeout set; no
\* connect() and no bind() is made on it
udp_opened(s, tv) == [s EXCEPT !.sndtimeo = timeval_usec(tv)]

\* lines 198-207: SO_SNDTIMEO; on failure the socket is closed; on success
\* the local list is released and the handle returned
zn_udp_open_sndtimeo ==
    /\ pc = "udp_sndtimeo"
    /\ \/ \E e \in timeo_errnos(udp_timeval(cur.tout)) :
            /\ errno' = e
            /\ r' = ErrInt(option_error(e))
            /\ sk' = [sk EXCEPT ![cur.fd] = FreeSock]
            /\ cur' = [cur EXCEPT !.failed = "sndtimeo", !.oserr = e]
            /\ UNCHANGED <<owned, laddr>>
       \/ /\ timeval_ok(udp_timeval(cur.tout))
          /\ sk' = [sk EXCEPT ![cur.fd] =
                                   udp_opened(sk[cur.fd], udp_timeval(cur.tout))]
          /\ laddr' = "freed"
          /\ owned' = owned \cup {cur.fd}
          /\ UNCHANGED <<errno, r, cur>>
    /\ pc' = "idle"
    /\ UNCHANGED <<mode, lease, nodes, ep, gai, closedOk, attempts, lastIo, rx>>

\* ------------------------------------------------ UDP: close, read, send
\* lines 210-213: close(sock)
zn_udp_close ==
    /\ mode = "udp" /\ pc = "idle"
    /\ \E fd \in owned :
         IF sk[fd].st = "open"
         THEN /\ sk' = [sk EXCEPT ![fd] = FreeSock]
              /\ closedOk' = closedOk \cup {fd}
              /\ lastIo' = [NoIo EXCEPT !.op = "close", !.fd = fd]
              /\ UNCHANGED errno
         ELSE /\ lastIo' = [NoIo EXCEPT !.op = "close", !.fd = fd, !.ret = -1]
              /\ errno' = IoErrno.badf
              /\ UNCHANGED <<sk, closedOk>>
    /\ UNCHANGED <<mode, lease, pc, nodes, ep, gai, owned, r, cur, attempts,
                   laddr, rx>>

\* a datagram socket takes datagrams from every sender unless connect() has
\* named a peer, and then from that peer alone
udp_deliverable(s, src) == s.peer = NoAddr \/ s.peer = src

\* lines 215-218, recv(sock, ptr, len, 0): the call is made and blocks
zn_udp_read ==
    /\ mode = "udp" /\ pc = "idle"
    /\ \E fd \in owned :
         IF sk[fd].st = "open"
         THEN /\ lastIo' = [NoIo EXCEPT !.op = "read", !.fd = fd]
              /\ pc' = "udp_recv"
              /\ UNCHANGED errno
         ELSE /\ lastIo' = [NoIo EXCEPT !.op = "read", !.fd = fd, !.ret = -1]
              /\ errno' = IoErrno.badf
              /\ UNCHANGED pc
    /\ UNCHANGED <<mode, lease, nodes, ep, gai, sk, owned, closedOk, r, cur,
                   attempts, laddr, rx>>

\* ... a datagram arrives: recv returns its bytes, cut to len
zn_udp_read_datagram ==
    /\ pc = "udp_recv"
    /\ \E src \in Sources : \E size \in 1..(IoLen + 1) :
         /\ udp_deliverable(sk[lastIo.fd], src)
         /\ lastIo' = [lastIo EXCEPT !.ret = Min(size, IoLen)]
    /\ pc' = "idle"
    /\ UNCHANGED <<mode, lease, nodes, ep, gai, sk, owned, closedOk, r, cur,
                   attempts, errno, laddr, rx>>

\* ... or the receive timeout of the socket expires: recv fails with EAGAIN.
\* A timeout of 0 never expires.
recv_can_time_out(s) == s.rcvtimeo > 0

zn_udp_read_timeout ==
    /\ pc = "udp_recv"
    /\ recv_can_time_out(sk[lastIo.fd])
    /\ lastIo' = [lastIo EXCEPT !.ret = -1]
    /\ errno' = IoErrno.timeout
    /\ pc' = "idle"
    /\ UNCHANGED <<mode, lease, nodes, ep, gai, sk, owned, closedOk, r, cur,
                   attempts, laddr, rx>>

\* line 242: the destination of sendto() is raddr->ai_addr, the address of
\* the first node of the endpoint passed to the call
udp_send_dest(endpoint) == AddrOf(1)

\* lines 238-243.  Through a pointer that is no endpoint the read of ai_addr
\* faults or yields no address.
zn_udp_send ==
    /\ mode = "udp" /\ pc = "idle" /\ ep \in {"head", "wild"}
    /\ \E fd \in owned :
         \/ /\ ep = "wild"
            /\ pc' = "crashed"
            /\ UNCHANGED <<lastIo, errno>>
         \/ /\ ep = "wild" \/ sk[fd].st = "free"
            /\ lastIo' = [NoIo EXCEPT !.op = "send", !.fd = fd, !.ret = -1]
            /\ errno' = IoErrno.badf
            /\ UNCHANGED pc
         \/ /\ ep = "head" /\ sk[fd].st = "open"
            /\ \E ret \in {-1, IoLen} :
                 /\ lastIo' = [NoIo EXCEPT !.op = "send", !.fd = fd, !.ret = ret,
                                          !.dest = udp_send_dest(nodes)]
                 /\ errno' = IF ret < 0 THEN IoErrno.send ELSE errno
            /\ UNCHANGED pc
    /\ UNCHANGED <<mode, lease, nodes, ep, gai, sk, owned, closedOk, r, cur,
                   attempts, laddr, rx>>

UdpNext ==
    \/ zn_create_udp_endpoint
    \/ zn_udp_open_resolve
    \/ zn_udp_open_socket
    \/ zn_udp_open_rcvtimeo
    \/ zn_udp_open_sndtimeo
    \/ zn_udp_close
    \/ zn_udp_read
    \/ zn_udp_read_datagram
    \/ zn_udp_read_timeout
    \/ zn_udp_send

TcpNext ==
    \/ zn_create_tcp_endpoint
    \/ zn_tcp_open_socket
    \/ zn_tcp_open_keepalive
    \/ zn_tcp_open_linger
    \/ zn_tcp_open_connect
    \/ zn_tcp_close
    \/ zn_tcp_read
    \/ zn_tcp_send

\* ------------------------------------------------------- exact reads
Payloads == UNION {[1..k -> Bytes] : k \in 0..MaxLen}

\* _zn_tcp_read_exact / _zn_udp_read_exact are called: lines 112-115 and
\* 220-223, int n = len
zn_read_exact_call ==
    /\ mode = "rx" /\ pc = "idle" /\ rx.fn = "none"
    /\ \E fn \in {"tcp", "udp"} : \E len \in 0..MaxLen : \E payload \in Payloads :
         rx' = [NoRx EXCEPT !.fn = fn, !.len = len, !.n = len,
                            !.buf = [i \in 1..len |-> Uninit],
                            !.payload = payload, !.left = payload]
    /\ pc' = "rx_loop"
    /\ UNCHANGED <<mode, lease, netvars>>

\* what the underlying read, recv(sock, ptr, n, 0), can return when the peer
\* has `left` still to deliver and closes after it: an error, some of the
\* bytes asked for, or 0 once nothing is left (or nothing was asked for)
read_results(left, n) ==
    {-1} \cup (IF n > 0 /\ Len(left) > 0 THEN 1..Min(n, Len(left)) ELSE {0})

\* the caller's buffer after recv has stored `data` from offset off on: the
\* bytes that fall past the end of the buffer land in whatever follows it
store(buf, off, data) ==
    [i \in 1..Len(buf) |->
        IF i > off /\ i <= off + Len(data) THEN data[i - off] ELSE buf[i]]

\* the bytes a recv that returned rb took from the connection and stored: a
\* failed recv takes and stores nothing
received(rb) == IF rb > 0 THEN rb ELSE 0

\* variant of read_failed: the result of the read is not tested
read_never_failed(rb) == FALSE

\* lines 120 and 228: the test that ends the loop with the read's error
read_failed(rb) == rb < 0

\* lines 123 and 231: n -= rb
rx_count(n, rb) == n - rb

\* lines 124 and 232: ptr = ptr + (len - n), as a distance from the start of
\* the buffer
rx_advance(off, len, n) == off + (len - n)

\* lines 125 and 233: while (n > 0)
rx_continue(n) == n > 0

\* One iteration of the do-while loop, lines 117-127 and 225-235.  ptr only
\* grows; once it is at or past the end of the buffer no read reaches the
\* buffer again, so the model keeps min(off, len).
read_exact_iter ==
    /\ pc = "rx_loop"
    /\ \E rb \in read_results(rx.left, rx.n) :
         IF read_failed(rb)
         THEN /\ rx' = [rx EXCEPT !.ret = rb, !.sawErr = TRUE,
                           !.aligned = @ /\ rx.off = rx.len - rx.n,
                           !.reads = (@ + 1) % 2]
              /\ pc' = "rx_done"
         ELSE LET n2 == rx_count(rx.n, rb)
                  data == SubSeq(rx.left, 1, received(rb))
              IN /\ rx' = [rx EXCEPT
                              !.n = n2,
                              !.off = Min(rx_advance(rx.off, rx.len, n2), rx.len),
                              !.buf = store(rx.buf, rx.off, data),
                              !.left = SubSeq(rx.left, received(rb) + 1, Len(rx.left)),
                              !.sawZero = @ \/ rb = 0,
                              !.sawErr = @ \/ rb < 0,
                              !.oob = @ \/ rx.off + rb > rx.len,
                              !.aligned = @ /\ rx.off = rx.len - rx.n,
                              !.reads = (@ + 1) % 2,
                              !.ret = IF rx_continue(n2) THEN 0 ELSE rx.len]
                 /\ pc' = IF rx_continue(n2) THEN "rx_loop" ELSE "rx_done"
    /\ UNCHANGED <<mode, lease, netvars>>

\* lines 112-128
zn_tcp_read_exact == rx.fn = "tcp" /\ read_exact_iter

\* lines 220-236
zn_udp_read_exact == rx.fn = "udp" /\ read_exact_iter

RxNext ==
    \/ zn_read_exact_call
    \/ zn_tcp_read_exact
    \/ zn_udp_read_exact

Next == TcpNext \/ UdpNext \/ RxNext

Spec == Init /\ [][Next]_vars

InitTcp == Init /\ mode = "tcp"
SpecTcp == InitTcp /\ [][TcpNext]_vars

InitUdp == Init /\ mode = "udp"
SpecUdp == InitUdp /\ [][UdpNext]_vars

InitRx == Init /\ mode = "rx"
SpecRx == InitRx /\ [][RxNext]_vars

\* The UDP transport when no datagram ever arrives.  recv() on a socket with
\* a receive timeout returns when the timeout expires.
UdpSilentNext ==
    \/ zn_create_udp_endpoint
    \/ zn_udp_open_resolve
    \/ zn_udp_open_socket
    \/ zn_udp_open_rcvtimeo
    \/ zn_udp_open_sndtimeo
    \/ zn_udp_close
    \/ zn_udp_read
    \/ zn_udp_read_timeout
    \/ zn_udp_send

FairSpecUdpSilent ==
    InitUdp /\ [][UdpSilentNext]_vars /\ WF_vars(zn_udp_read_timeout)

\* every underlying read returns, and the loop goes on to its next statement
FairSpecRx == SpecRx /\ WF_vars(zn_tcp_read_exact) /\ WF_vars(zn_udp_read_exact)

\* =================================================================
\* Properties
\* =================================================================

\* an exact read has returned
RxDone == pc = "rx_done"

\* every underlying read of the exact read returned at least one byte
RxAllPositive == ~rx.sawZero /\ ~rx.sawErr

\* C1: for every payload of length L >= 1 and every way of splitting it into
\* fragments of at least one byte, the exact read returns L and bytes
\* [0, L) of the caller's buffer equal the payload, in order.
C1_ExactReadDeliversPayload ==
    (RxDone /\ rx.len >= 1 /\ RxAllPositive)
        => /\ rx.ret = rx.len
           /\ rx.buf = SubSeq(rx.payload, 1, rx.len)

\* the peer closed after fewer bytes than were asked for, and the exact read
\* has seen it: an underlying read returned 0
RxClosedMidway ==
    /\ pc = "rx_loop"
    /\ Len(rx.payload) < rx.len
    /\ rx.sawZero

\* C2: if the peer closes after delivering fewer than L bytes, the exact read
\* for L bytes returns a failure; it never returns success with fewer bytes.
C2_PeerCloseFails ==
    /\ [](RxClosedMidway => <>(RxDone /\ rx.ret < 0))
    /\ []((RxDone /\ Len(rx.payload) < rx.len) => rx.ret < 0)

\* a _zn_tcp_open on the endpoint got as far as its connect loop and is over
TcpConnectPhaseOver ==
    /\ mode = "tcp"
    /\ pc \in {"idle", "crashed"}
    /\ attempts # <<>>

\* the addresses connect() was called with, in order
AttemptedAddrs == [k \in 1..Len(attempts) |-> attempts[k].addr]

\* the candidates of the endpoint, in resolver order
Candidates == [k \in 1..Len(nodes) |-> AddrOf(k)]

\* C3: when the host resolves to >= 2 candidates of which only the last is
\* reachable, open returns Ok(handle), having attempted connect on every
\* unreachable candidate, in resolver order, before the reachable one.
C3_FallbackReachesLast ==
    (/\ TcpConnectPhaseOver
     /\ Len(nodes) >= 2
     /\ \A i \in 1..Len(nodes) : nodes[i].reach <=> (i = Len(nodes)))
        => /\ pc = "idle"
           /\ r.tag = "OK"
           /\ AttemptedAddrs = Candidates
           /\ sk[r.socket].peer = AddrOf(Len(nodes))

\* C4: when no resolved address is reachable, open returns
\* Err(connection-failure), and only after a connect attempt on every
\* resolved candidate.
C4_AllFailTriesEveryCandidate ==
    (/\ TcpConnectPhaseOver
     /\ \A i \in 1..Len(nodes) : ~nodes[i].reach)
        => /\ pc = "idle"
           /\ r.tag = "ERR"
           /\ r.zn = "TX_CONNECTION"
           /\ AttemptedAddrs = Candidates

\* an open has returned Err after its socket() had succeeded
OpenFailedAfterSocket ==
    /\ pc = "idle"
    /\ r.tag = "ERR"
    /\ cur.fd # 0

\* C5: whenever _zn_tcp_open or _zn_udp_open returns Err after its socket was
\* created, that socket has been closed: the descriptor is not left allocated.
C5_FailedOpenClosesSocket ==
    OpenFailedAfterSocket => sk[cur.fd].st = "free"

\* a _zn_udp_read is blocked in recv()
UdpReadWaiting == pc = "udp_recv"

\* the _zn_udp_read has returned a failure
UdpReadFailed == pc = "idle" /\ lastIo.op = "read" /\ lastIo.ret < 0

\* C6, as claimed: for every timeout value _zn_udp_open accepts, a
\* _zn_udp_read on the handle, no datagram ever arriving, returns a failure
\* after a finite wait.
C6_ReadTimesOutForEveryTimeout ==
    [](UdpReadWaiting => <>UdpReadFailed)

\* C6, amended: for every timeout value other than 0 that _zn_udp_open
\* accepts, a _zn_udp_read on the handle, no datagram ever arriving, returns
\* a failure after a finite wait.
C6_ReadTimesOutForPositiveTimeout ==
    []((UdpReadWaiting /\ sk[lastIo.fd].tout > 0) => <>UdpReadFailed)

\* C6, witness: a read on a handle opened with a positive timeout has failed
\* with EAGAIN
C6_Witness ==
    /\ UdpReadFailed
    /\ sk[lastIo.fd].st = "open"
    /\ sk[lastIo.fd].tout > 0
    /\ errno = IoErrno.timeout

\* C7: whenever name resolution fails (any non-zero status), the create
\* function returns NULL and neither reads nor releases an address list.
C7_ResolveFailureGivesNull ==
    gai.status # 0 => (ep = "null" /\ ~gai.touched)

\* C8: when socket() fails in an open, the result is Err carrying the errno
\* of the failed call, as it is for the option-setting failures.
C8_SocketFailureCarriesErrno ==
    (/\ pc = "idle"
     /\ r.tag = "ERR"
     /\ cur.failed \in {"socket", "keepalive", "linger", "rcvtimeo", "sndtimeo"})
        => (r.zn = "" /\ r.error = cur.oserr)

\* C9: after _zn_tcp_close has succeeded on a handle, the connection is shut
\* down in both directions, no later send or receive on it transfers data,
\* and the descriptor is still allocated.
C9_CloseShutsDownKeepsDescriptor ==
    /\ \A fd \in closedOk :
         /\ sk[fd].st = "open"
         /\ sk[fd].shutrd /\ sk[fd].shutwr
    /\ (lastIo.op \in {"read", "send"} /\ lastIo.fd \in closedOk)
          => lastIo.ret <= 0

\* C9, witness: a send after a successful close has failed on a descriptor
\* that is still allocated
C9_Witness ==
    /\ mode = "tcp"
    /\ lastIo.op = "send"
    /\ lastIo.fd \in closedOk
    /\ lastIo.ret = -1
    /\ sk[lastIo.fd].st = "open"

\* C10: in every sequence of UDP operations the socket is never connected to
\* a peer: each send names the first address of the endpoint passed to it,
\* and receive takes datagrams from every source.
C10_UdpNeverConnected ==
    /\ \A fd \in Fds :
         sk[fd].st = "open" =>
            /\ sk[fd].peer = NoAddr
            /\ \A src \in Sources : udp_deliverable(sk[fd], src)
    /\ (lastIo.op = "send" /\ lastIo.ret >= 0)
          => lastIo.dest = Candidates[1]

\* C10, witness: a datagram was sent on an open handle to an endpoint of two
\* addresses
C10_Witness ==
    /\ mode = "udp"
    /\ lastIo.op = "send"
    /\ lastIo.ret = IoLen
    /\ Len(nodes) >= 2
    /\ sk[lastIo.fd].st = "open"

\* C11: an exact read returns after finitely many underlying reads, for
\* every requested length and every sequence of read results: short positive
\* counts, zero bytes, negative errors.
C11_ExactReadTerminates == [](pc = "rx_loop" => <>RxDone)

\* C12: every iteration of an exact read issues its read at the offset equal
\* to the bytes accumulated so far; no read stores outside [0, length) or
\* over a byte an earlier read filled.
C12_ReadsAtAccumulatedOffset ==
    (pc \in {"rx_loop", "rx_done"}) => (rx.aligned /\ ~rx.oob)

\* C13: the TCP endpoint keeps its whole chain, so every node whose address
\* _zn_tcp_open hands to connect(), the head or one reached through ai_next,
\* is still allocated.
C13_VisitedNodesAllocated ==
    /\ (mode = "tcp" /\ ep = "head") => \A i \in 1..Len(nodes) : nodes[i].alive
    /\ \A k \in 1..Len(attempts) : nodes[attempts[k].node].alive

\* _zn_tcp_open returned and every node it read held what the resolver put
\* there: the addresses tried are the candidates in order, and a failure was
\* returned only after the last of them
TcpOpenReadIntactNodes ==
    /\ TcpConnectPhaseOver
    /\ pc = "idle"
    /\ AttemptedAddrs = SubSeq(Candidates, 1, Len(attempts))
    /\ (r.tag = "ERR" => Len(attempts) = Len(nodes))

\* the first candidate is unreachable and a later one, of another address
\* family, is reachable
MixedFamilies ==
    /\ ~nodes[1].reach
    /\ \E j \in 2..Len(nodes) :
          nodes[j].reach /\ nodes[j].family # nodes[1].family

\* C14: with candidates of mixed families, the first unreachable and a later
\* one of the other family reachable, open returns Ok(handle) connected to
\* that later candidate (taken over the runs where the nodes read held their
\* resolver contents, so that nothing but the families decides).
C14_MixedFamilyFallback ==
    (TcpOpenReadIntactNodes /\ MixedFamilies)
        => /\ r.tag = "OK"
           /\ sk[r.socket].peer # NoAddr
           /\ nodes[sk[r.socket].peer].reach

\* _zn_tcp_open has returned
TcpOpenReturned == mode = "tcp" /\ pc = "idle" /\ r.tag # "none"

\* C15: _zn_tcp_open returns Ok(handle) exactly when a connect attempt
\* succeeded; the handle is then connected to the address of the first
\* attempt that succeeded, the failures before it are not returned, and no
\* connect follows it.
C15_OkIffConnectSucceeded ==
    TcpOpenReturned =>
        /\ (r.tag = "OK") <=> (\E k \in 1..Len(attempts) : attempts[k].ok)
        /\ (r.tag = "OK") =>
              /\ attempts[Len(attempts)].ok
              /\ \A k \in 1..(Len(attempts) - 1) : ~attempts[k].ok
              /\ sk[r.socket].st = "open"
              /\ sk[r.socket].peer = attempts[Len(attempts)].addr

\* C15, witness: open returned Ok after the connect of an earlier candidate
\* had failed
C15_Witness ==
    /\ TcpOpenReturned
    /\ r.tag = "OK"
    /\ Len(attempts) >= 2

C17_LocalListReleased ==
    (mode = "udp" /\ pc = "idle" /\ laddr # "none")
        => /\ laddr = "freed"
           /\ (ep = "head" => nodes[1].alive)

\* C18: when an underlying read returns a negative value the exact read
\* returns that value at once: no further read is issued and the requested
\* length is never returned.
C18_ReadErrorReturnedAtOnce ==
    rx.sawErr =>
        /\ RxDone
        /\ rx.ret = -1
        /\ rx.ret # rx.len

\* C18, witness: an underlying read failed after earlier reads had stored
\* part of the payload
C18_Witness ==
    /\ RxDone
    /\ rx.sawErr
    /\ rx.len >= 2
    /\ Len(rx.left) < Len(rx.payload)

\* C19: for every lease >= 0 in milliseconds _zn_tcp_open enables linger with
\* the duration floor(lease / 1000) seconds; a lease under 1000 gives a
\* duration of 0 with linger enabled.
C19_LingerIsWholeSeconds ==
    \A fd \in Fds :
        (/\ mode = "tcp"
         /\ sk[fd].st = "open"
         /\ (pc = "tcp_connect" \/ attempts # <<>>))
            => /\ sk[fd].linger.l_onoff = 1
               /\ sk[fd].linger.l_linger * 1000 <= lease
               /\ lease < (sk[fd].linger.l_linger + 1) * 1000
               /\ (lease < 1000 => sk[fd].linger.l_linger = 0)

\* C19, witness: open returned a connected handle under a lease below one
\* second
C19_Witness ==
    /\ TcpOpenReturned
    /\ r.tag = "OK"
    /\ lease = 999
    /\ sk[r.socket].linger = [l_onoff |-> 1, l_linger |-> 0]

====
